---- MODULE Spec2Model ----
(***************************************************************************)
(* pdfcleaner: delete pages of a PDF, or replace them by "Redacted" pages.  *)
(* A model of src/pdfcleaner.py: the page-range parser, the placeholder     *)
(* page, the page loop of delete_or_replace_pages and the exit of main.     *)
(*                                                                          *)
(* A string is a sequence of one-character strings, so that split() and     *)
(* int() are computed character by character.                               *)
(***************************************************************************)
EXTENDS Integers, Sequences, FiniteSets

(***************************************************************************)
(* Bounds of the model.                                                     *)
(***************************************************************************)
\* longest enumerated page-range string
MaxLen == 4
\* most pages of an enumerated source document
MaxPages == 2

VARIABLES
    page_range_str,     \* argument: the page filter, a string
    replace,            \* argument: --replace
    pc,                 \* position in delete_or_replace_pages / main
    pages_to_delete,    \* sorted list returned by parse_page_ranges
    reader,             \* pages of the PdfReader
    i,                  \* next position the loop visits
    writer,             \* pages of the PdfWriter
    outfile,            \* pages of the output file, once written
    writes,             \* number of times the output file was written
    exc,                \* the exception that left delete_or_replace_pages
    printed,            \* the last message of the run
    status              \* exit status of the process, -1 while running

vars == <<page_range_str, replace, pc, pages_to_delete, reader, i, writer,
          outfile, writes, exc, printed, status>>

(***************************************************************************)
(* Characters and strings.                                                  *)
(***************************************************************************)
DigitChars == <<"0", "1", "2", "3", "4", "5", "6", "7", "8", "9">>

Digits == {DigitChars[k] : k \in 1..Len(DigitChars)}

DigitVal(c) == (CHOOSE k \in 1..Len(DigitChars) : DigitChars[k] = c) - 1

\* the characters of the enumerated strings: digits, the two separators and
\* a character that is neither
Alphabet == {"0", "1", "2", "-", ",", "x"}

RECURSIVE StringsUpTo(_)
StringsUpTo(n) ==
    IF n = 0 THEN {<<>>}
    ELSE LET shorter == StringsUpTo(n - 1)
         IN  shorter \cup {Append(s, c) : s \in {t \in shorter : Len(t) = n - 1},
                                          c \in Alphabet}

\* the page ranges of the documentation and of the help text, and strings
\* with blanks and signs
Examples ==
    { <<"3">>, <<"1", "-", "3">>,
      <<"2", ",", "4", "-", "6", ",", "9">>,
      <<"2", ",", "1", "-", "3">>,
      <<"2", ",", "5", "-", "7">>,
      <<"1", "0", "0", "0">>,
      <<"1", "2", ",", "1", "5", "-", "1", "8", ",", "2", "2">>,
      <<"2", "-", "1", ",", "1">>,
      <<"1", ",", "3", "-", "2", ",", "2">>,
      <<"1", "-", "1", "0">>,
      <<"0", "-", "2">>, <<"0", "-", "2", ",", "1">>,
      <<"1", "-", "2", "-", "3">>, <<"1", ",", "-", "2">>,
      <<" ", "2">>, <<"+", "2", ",", "1", " ">>,
      <<"1", " ", "-", " ", "2">>, <<"1", " ", "1">> }

(***************************************************************************)
(* str.split(sep): the pieces between the separators, at least one piece.   *)
(***************************************************************************)
RECURSIVE SplitFrom(_, _, _, _)
SplitFrom(s, sep, cur, acc) ==
    IF s = <<>> THEN Append(acc, cur)
    ELSE IF Head(s) = sep THEN SplitFrom(Tail(s), sep, <<>>, Append(acc, cur))
    ELSE SplitFrom(Tail(s), sep, Append(cur, Head(s)), acc)

split(s, sep) == SplitFrom(s, sep, <<>>, <<>>)

(***************************************************************************)
(* int(str): blanks around are stripped, one sign may lead, then decimal    *)
(* digits only; anything else raises ValueError.                            *)
(***************************************************************************)
RECURSIVE LStrip(_)
LStrip(s) == IF s # <<>> /\ Head(s) = " " THEN LStrip(Tail(s)) ELSE s

RECURSIVE RStrip(_)
RStrip(s) ==
    IF s # <<>> /\ s[Len(s)] = " " THEN RStrip(SubSeq(s, 1, Len(s) - 1)) ELSE s

strip(s) == RStrip(LStrip(s))

Unsigned(s) ==
    LET t == strip(s) IN IF t # <<>> /\ Head(t) \in {"+", "-"} THEN Tail(t) ELSE t

IntRaises(s) ==
    LET u == Unsigned(s) IN u = <<>> \/ \E k \in 1..Len(u) : u[k] \notin Digits

RECURSIVE DecimalValue(_)
DecimalValue(u) ==
    IF u = <<>> THEN 0
    ELSE 10 * DecimalValue(SubSeq(u, 1, Len(u) - 1)) + DigitVal(u[Len(u)])

int(s) ==
    LET t == strip(s)
    IN  IF t # <<>> /\ Head(t) = "-" THEN 0 - DecimalValue(Unsigned(s))
        ELSE DecimalValue(Unsigned(s))

(***************************************************************************)
(* parse_page_ranges                                                        *)
(***************************************************************************)
HasHyphen(part) == \E k \in 1..Len(part) : part[k] = "-"

\* a variant: range(start-1, end-1), the end taken as exclusive
PageRange_EndExclusive(start, end) == (start - 1)..(end - 2)

\* a variant: the bounds put in order first, min(start,end)..max(start,end)
PageRange_Swapped(start, end) ==
    IF start <= end THEN (start - 1)..(end - 1) ELSE (end - 1)..(start - 1)

\* range(start-1, end)
PageRange(start, end) == (start - 1)..(end - 1)

\* a variant: start and end read as pieces [0] and [1], nothing unpacked
PartRaises_NoUnpack(part) ==
    IF HasHyphen(part)
    THEN LET pieces == split(part, "-")
         IN  IntRaises(pieces[1]) \/ IntRaises(pieces[2])
    ELSE IntRaises(part)

\* the part raises ValueError: int() of a piece, or the unpacking of
\* start, end from other than two pieces
PartRaises(part) ==
    IF HasHyphen(part)
    THEN LET pieces == split(part, "-")
         IN  \/ \E k \in 1..Len(pieces) : IntRaises(pieces[k])
             \/ Len(pieces) # 2
    ELSE IntRaises(part)

\* a variant: a single page number added as it is, not as an index
PartPages_OneBased(part) ==
    IF HasHyphen(part)
    THEN LET pieces == split(part, "-")
         IN  PageRange(int(pieces[1]), int(pieces[2]))
    ELSE {int(part)}

\* the indices the part adds to pages_to_delete
PartPages(part) ==
    IF HasHyphen(part)
    THEN LET pieces == split(part, "-")
         IN  PageRange(int(pieces[1]), int(pieces[2]))
    ELSE {int(part) - 1}

\* sorted(set): the elements in ascending order
sorted(S) ==
    IF S = {} THEN <<>>
    ELSE LET lo == CHOOSE x \in S : \A y \in S : x <= y
             hi == CHOOSE x \in S : \A y \in S : y <= x
         IN  SelectSeq([k \in 1..(hi - lo + 1) |-> lo + k - 1], LAMBDA x : x \in S)

ParseRaises(str) ==
    LET ranges == split(str, ",")
    IN  \E k \in 1..Len(ranges) : PartRaises(ranges[k])

\* a variant: indices below 0 are dropped from the result
parse_page_ranges_NonNegative(str) ==
    LET ranges == split(str, ",")
    IN  sorted({x \in UNION {PartPages(ranges[k]) : k \in 1..Len(ranges)} : x >= 0})

parse_page_ranges(str) ==
    LET ranges == split(str, ",")
    IN  sorted(UNION {PartPages(ranges[k]) : k \in 1..Len(ranges)})

(***************************************************************************)
(* Pages.  A source page carries its 1-based number as identity and its     *)
(* mediabox; a box is <<left, bottom, right, top>>.                         *)
(***************************************************************************)
Portrait == <<0, 0, 2, 3>>
Landscape == <<1, 0, 4, 2>>

Boxes == {Portrait, Landscape}

BoxWidth(box) == box[3] - box[1]
BoxHeight(box) == box[4] - box[2]

SourcePage(n, box) == [kind |-> "original", id |-> n, mediabox |-> box]

Documents ==
    UNION {{[k \in 1..n |-> SourcePage(k, b[k])] : b \in [1..n -> Boxes]} : n \in 0..MaxPages}
    \cup {[k \in 1..10 |-> SourcePage(k, IF k % 3 = 0 THEN Landscape ELSE Portrait)]}

\* a variant: the canvas has one default page size
create_redacted_page_DefaultSize(media_box) ==
    [kind |-> "Redacted", id |-> 0,
     mediabox |-> <<0, 0, BoxWidth(Portrait), BoxHeight(Portrait)>>]

\* a one-page PDF drawn on a canvas of the size of media_box
create_redacted_page(media_box) ==
    [kind |-> "Redacted", id |-> 0,
     mediabox |-> <<0, 0, BoxWidth(media_box), BoxHeight(media_box)>>]

\* i in pages_to_delete
Contains(list, x) == \E k \in 1..Len(list) : list[k] = x

(***************************************************************************)
(* The run.                                                                 *)
(***************************************************************************)
Init ==
    /\ page_range_str \in StringsUpTo(MaxLen) \cup Examples
    /\ replace \in BOOLEAN
    /\ pc = "exists"
    /\ pages_to_delete = <<>>
    /\ reader = <<>>
    /\ i = 0
    /\ writer = <<>>
    /\ outfile = <<>>
    /\ writes = 0
    /\ exc = "none"
    /\ printed = "none"
    /\ status = -1

\* if not os.path.exists(input_file): print, return
CheckExists ==
    /\ pc = "exists"
    /\ \E exists \in BOOLEAN :
          IF exists
          THEN /\ pc' = "parse"
               /\ UNCHANGED printed
          ELSE /\ pc' = "returned"
               /\ printed' = "Error: File not found"
    /\ UNCHANGED <<page_range_str, replace, pages_to_delete, reader, i, writer,
                   outfile, writes, exc, status>>

\* pages_to_delete = parse_page_ranges(page_range_str); print
Parse ==
    /\ pc = "parse"
    /\ IF ParseRaises(page_range_str)
       THEN /\ exc' = "ValueError"
            /\ pc' = "returned"
            /\ UNCHANGED <<pages_to_delete, printed>>
       ELSE /\ pages_to_delete' = parse_page_ranges(page_range_str)
            /\ printed' = "Pages to delete"
            /\ pc' = "read"
            /\ UNCHANGED exc
    /\ UNCHANGED <<page_range_str, replace, reader, i, writer, outfile, writes, status>>

\* try: reader = PdfReader(input_file) except: print, return; writer = PdfWriter()
Read ==
    /\ pc = "read"
    /\ \/ /\ pc' = "returned"
          /\ printed' = "Error reading PDF file"
          /\ UNCHANGED <<reader, i, writer>>
       \/ \E doc \in Documents :
             /\ reader' = doc
             /\ writer' = <<>>
             /\ i' = 0
             /\ pc' = "loop"
             /\ UNCHANGED printed
    /\ UNCHANGED <<page_range_str, replace, pages_to_delete, outfile, writes, exc, status>>

\* a variant: range(num_pages - 1)
LoopDone_Short == i >= Len(reader) - 1

\* range(num_pages) is exhausted
LoopDone == i >= Len(reader)

\* a variant: reader.pages[i-1], which is the last page when i is 0
CurrentPage_Previous == reader[((i - 1) % Len(reader)) + 1]

\* reader.pages[i], the page the loop is at
CurrentPage == reader[i + 1]

\* the page is in pages_to_delete and --replace is set
ReplacePage ==
    /\ writer' = Append(writer, create_redacted_page(CurrentPage.mediabox))
    /\ printed' = "Replacing page"

\* a variant: no else, the deleted page is added all the same
DeletePage_StillAdds ==
    /\ printed' = "Deleting page"
    /\ writer' = Append(writer, CurrentPage)

\* the page is in pages_to_delete and --replace is not set
DeletePage ==
    /\ printed' = "Deleting page"
    /\ UNCHANGED writer

\* the page is not in pages_to_delete
KeepPage ==
    /\ writer' = Append(writer, CurrentPage)
    /\ UNCHANGED printed

\* one turn of: for i in range(num_pages)
Loop ==
    /\ pc = "loop"
    /\ ~LoopDone
    /\ IF Contains(pages_to_delete, i)
       THEN IF replace THEN ReplacePage ELSE DeletePage
       ELSE KeepPage
    /\ i' = i + 1
    /\ UNCHANGED <<page_range_str, replace, pc, pages_to_delete, reader, outfile,
                   writes, exc, status>>

LoopEnd ==
    /\ pc = "loop"
    /\ LoopDone
    /\ pc' = "write"
    /\ UNCHANGED <<page_range_str, replace, pages_to_delete, reader, i, writer,
                   outfile, writes, exc, printed, status>>

\* with open(output_file, "wb") as f: writer.write(f); print
WriteOutput ==
    /\ outfile' = writer
    /\ writes' = writes + 1
    /\ printed' = "Output saved"
    /\ UNCHANGED exc

\* the file is written, or open() raises (the output path is not writable)
\* and the exception leaves the function uncaught
Write ==
    /\ pc = "write"
    /\ \/ WriteOutput
       \/ /\ exc' = "OSError"
          /\ UNCHANGED <<outfile, writes, printed>>
    /\ pc' = "returned"
    /\ UNCHANGED <<page_range_str, replace, pages_to_delete, reader, i, writer, status>>

\* the status main leaves the process with: an uncaught exception ends
\* the interpreter with 1, a return of main with 0
ExitStatus(e) == IF e = "none" THEN 0 ELSE 1

Exit ==
    /\ pc = "returned"
    /\ status' = ExitStatus(exc)
    /\ pc' = "exit"
    /\ UNCHANGED <<page_range_str, replace, pages_to_delete, reader, i, writer,
                   outfile, writes, exc, printed>>

Next == CheckExists \/ Parse \/ Read \/ Loop \/ LoopEnd \/ Write \/ Exit

Spec == Init /\ [][Next]_vars

(***************************************************************************)
(* The grammar of the page-range argument, read by a scanner: one pass,     *)
(* character by character.                                                  *)
(*   range_spec := token (',' token)*                                       *)
(*   token      := INTEGER | INTEGER '-' INTEGER                            *)
(* An INTEGER is decimal digits, with blanks around and a leading '+'       *)
(* allowed.  The scanner yields the tokens as [lo, hi, range].              *)
(***************************************************************************)
ScanStart ==
    [ok |-> TRUE, bound |-> 1, at |-> "before", lo |-> 0, hi |-> 0, toks |-> <<>>]

ScanReject == [ScanStart EXCEPT !.ok = FALSE]

ScanToken(st) ==
    [lo |-> st.lo, hi |-> IF st.bound = 1 THEN st.lo ELSE st.hi, range |-> st.bound = 2]

ScanStep(st, c) ==
    IF ~st.ok THEN st
    ELSE IF c = " "
         THEN IF st.at = "before" THEN st
              ELSE IF st.at \in {"digits", "after"} THEN [st EXCEPT !.at = "after"]
              ELSE ScanReject
    ELSE IF c = "+"
         THEN IF st.at = "before" THEN [st EXCEPT !.at = "sign"] ELSE ScanReject
    ELSE IF c \in Digits
         THEN IF st.at = "after" THEN ScanReject
              ELSE IF st.bound = 1
                   THEN [st EXCEPT !.at = "digits", !.lo = 10 * st.lo + DigitVal(c)]
                   ELSE [st EXCEPT !.at = "digits", !.hi = 10 * st.hi + DigitVal(c)]
    ELSE IF c = "-"
         THEN IF st.bound = 1 /\ st.at \in {"digits", "after"}
              THEN [st EXCEPT !.bound = 2, !.at = "before"]
              ELSE ScanReject
    ELSE IF c = ","
         THEN IF st.at \in {"digits", "after"}
              THEN [ScanStart EXCEPT !.toks = Append(st.toks, ScanToken(st))]
              ELSE ScanReject
    ELSE ScanReject

RECURSIVE ScanAll(_, _)
ScanAll(st, s) == IF s = <<>> THEN st ELSE ScanAll(ScanStep(st, Head(s)), Tail(s))

Grammar(s) ==
    LET st == ScanAll(ScanStart, s)
    IN  IF st.ok /\ st.at \in {"digits", "after"}
        THEN [ok |-> TRUE, toks |-> Append(st.toks, ScanToken(st))]
        ELSE [ok |-> FALSE, toks |-> <<>>]

Range(seq) == {seq[k] : k \in 1..Len(seq)}

\* the tokens of the argument of this run
Tokens == Range(Grammar(page_range_str).toks)

\* every token is an integer or a range of two integers
Accepted == Grammar(page_range_str).ok

\* accepted, every page number is at least 1 and no range is inverted
WellFormed == Accepted /\ \A t \in Tokens : 1 <= t.lo /\ t.lo <= t.hi

Inverted(t) == t.range /\ t.lo > t.hi

\* the 0-based indices of the page numbers the tokens name
NamedIndices == UNION {{p - 1 : p \in t.lo..t.hi} : t \in Tokens}

\* parse_page_ranges was called and has returned or raised
ParseRan == pc \notin {"exists", "parse"} /\ printed # "Error: File not found"

\* the output was written and the function has returned
Saved == printed = "Output saved"

Ascending(seq) == \A k \in 1..(Len(seq) - 1) : seq[k] < seq[k + 1]

InRange(x) == 0 <= x /\ x < Len(reader)

Ids(seq) == [k \in 1..Len(seq) |-> seq[k].id]

(***************************************************************************)
(* The properties.                                                          *)
(***************************************************************************)

\* C1: for a well-formed page range (every token a 1-based page number or a
\* range start-end with start <= end) parse_page_ranges raises nothing and
\* returns exactly the indices p-1 of the pages the tokens name, each once,
\* ascending; "2,4-6,9" gives 1,3,4,5,8 and "2,1-3" gives 0,1,2.
C1_ParseWellFormed ==
    (ParseRan /\ WellFormed) =>
        /\ exc # "ValueError"
        /\ Range(pages_to_delete) = NamedIndices
        /\ Len(pages_to_delete) = Cardinality(NamedIndices)
        /\ Ascending(pages_to_delete)
        /\ page_range_str = <<"2", ",", "4", "-", "6", ",", "9">>
              => pages_to_delete = <<1, 3, 4, 5, 8>>
        /\ page_range_str = <<"2", ",", "1", "-", "3">>
              => pages_to_delete = <<0, 1, 2>>

\* a well-formed argument was parsed whose tokens overlap, one of them a
\* range of several pages, given out of ascending order
C1_Witness ==
    /\ ParseRan /\ WellFormed
    /\ LET toks == Grammar(page_range_str).toks
       IN  /\ Len(toks) >= 2
           /\ toks[2].range /\ toks[2].lo < toks[2].hi
           /\ toks[2].lo < toks[1].lo /\ toks[1].lo <= toks[2].hi
    /\ Len(pages_to_delete) >= 2

\* C2: in Delete mode the output has the length of the source minus the
\* number of indices that lie in [0, len); an index >= len is ignored and
\* raises nothing, so with only such indices ("1000") the output is the source.
C2_DeleteLength ==
    /\ (pc \in {"loop", "write"}) => exc = "none"
    /\ (Saved /\ ~replace) =>
          /\ Len(outfile) =
                Len(reader) - Cardinality({x \in Range(pages_to_delete) : InRange(x)})
          /\ (\A x \in Range(pages_to_delete) : x >= Len(reader)) => outfile = reader

\* a Delete run was saved whose index list has an index inside the
\* document and one past its end
C2_Witness ==
    /\ Saved /\ ~replace /\ pc = "exit"
    /\ \E x \in Range(pages_to_delete) : InRange(x)
    /\ \E x \in Range(pages_to_delete) : x >= Len(reader)
    /\ Len(outfile) < Len(reader)

\* C3: in Redact mode the output has the length of the source, and at every
\* position of the index list the output page is a placeholder of exactly
\* the width and height of the source page at that position.
C3_RedactGeometry ==
    (Saved /\ replace) =>
        /\ Len(outfile) = Len(reader)
        /\ \A k \in 1..Len(reader) :
              Contains(pages_to_delete, k - 1) =>
                 /\ outfile[k].kind = "Redacted"
                 /\ BoxWidth(outfile[k].mediabox) = BoxWidth(reader[k].mediabox)
                 /\ BoxHeight(outfile[k].mediabox) = BoxHeight(reader[k].mediabox)

\* a Redact run was saved that replaced two pages of different sizes
C3_Witness ==
    /\ Saved /\ replace /\ pc = "exit"
    /\ \E j, k \in 1..Len(reader) :
          /\ Contains(pages_to_delete, j - 1) /\ Contains(pages_to_delete, k - 1)
          /\ BoxWidth(reader[j].mediabox) # BoxWidth(reader[k].mediabox)
          /\ outfile[j].kind = "Redacted" /\ outfile[k].kind = "Redacted"

\* C4: in both modes every source page whose position is not in the index
\* list is in the output unmodified, the source pages of the output are in
\* source order without duplicates and none of them is a listed one; with an
\* empty index list the output is the source.
C4_KeptPages ==
    Saved =>
        /\ \A k \in 1..Len(reader) :
              ~Contains(pages_to_delete, k - 1) =>
                  \E j \in 1..Len(outfile) : outfile[j] = reader[k]
        /\ \A j \in 1..Len(outfile) :
              outfile[j].kind = "original" =>
                  /\ outfile[j].id \in 1..Len(reader)
                  /\ outfile[j] = reader[outfile[j].id]
                  /\ ~Contains(pages_to_delete, outfile[j].id - 1)
        /\ \A j, k \in 1..Len(outfile) :
              (j < k /\ outfile[j].kind = "original" /\ outfile[k].kind = "original")
                  => outfile[j].id < outfile[k].id
        /\ pages_to_delete = <<>> => outfile = reader

\* a run was saved that kept pages on both sides of a listed page
C4_Witness ==
    /\ Saved /\ pc = "exit"
    /\ \E a, b, c \in 1..Len(reader) :
          /\ a < b /\ b < c
          /\ ~Contains(pages_to_delete, a - 1)
          /\ Contains(pages_to_delete, b - 1)
          /\ ~Contains(pages_to_delete, c - 1)

TenPages == Len(reader) = 10 /\ page_range_str = <<"2", ",", "5", "-", "7">>

\* C5 as stated: a 10-page input and "2,5-7" in Delete mode give a 7-page
\* output of the original pages 1,3,4,8,9,10 in that order.
C5_SevenPages ==
    (Saved /\ ~replace /\ TenPages) =>
        /\ Len(outfile) = 7
        /\ Ids(outfile) = <<1, 3, 4, 8, 9, 10>>

\* C5 amended: a 10-page input and "2,5-7" in Delete mode give a 6-page
\* output of the original pages 1,3,4,8,9,10 in that order.
C5_SixPages ==
    (Saved /\ ~replace /\ TenPages) =>
        /\ Len(outfile) = 6
        /\ Ids(outfile) = <<1, 3, 4, 8, 9, 10>>
        /\ \A j \in 1..Len(outfile) : outfile[j] = reader[outfile[j].id]

\* the 10-page document was saved in Delete mode with "2,5-7"
C5_Witness == Saved /\ ~replace /\ TenPages /\ pc = "exit" /\ writes = 1

\* C6: a run that saves its output writes the output file exactly once, with
\* the pages of the writer, after the loop has visited every source page, and
\* nothing changes the file afterwards; so with an empty index list (a full
\* copy) and with every page listed in Delete mode (a zero-page output).
C6_WrittenOnce ==
    /\ [][(writes' # writes \/ outfile' # outfile) =>
             /\ pc = "write" /\ i = Len(reader)
             /\ writes = 0 /\ writes' = 1
             /\ outfile' = writer]_vars
    /\ [](Saved => (writes = 1 /\ outfile = writer /\ i = Len(reader)))
    /\ []((pc = "exit" /\ ~Saved) => writes = 0)
    /\ []((Saved /\ pages_to_delete = <<>>) => outfile = reader)
    /\ []((Saved /\ ~replace /\ \A k \in 1..Len(reader) : Contains(pages_to_delete, k - 1))
             => outfile = <<>>)

\* a Delete run of a document with pages ended with a zero-page output written
C6_Witness ==
    /\ pc = "exit" /\ Saved /\ ~replace /\ writes = 1
    /\ Len(reader) > 0 /\ outfile = <<>>

\* C7: when a token of the page range is not an integer, or a range lacks a
\* bound or has more than one hyphen, the parse raises ValueError, the run
\* stops there: no page is added to the writer and no output file is written.
C7_MalformedAborts ==
    ~Accepted =>
        /\ pc \notin {"read", "loop", "write"}
        /\ ParseRan => (exc = "ValueError" /\ pages_to_delete = <<>>)
        /\ writer = <<>> /\ writes = 0 /\ outfile = <<>>
        /\ ~Saved
        /\ (pc = "exit" /\ ParseRan) => status # 0

\* a run ended on a range token with two hyphens, all of its pieces integers
C7_Witness ==
    /\ pc = "exit" /\ exc = "ValueError" /\ ~Accepted
    /\ \E k \in 1..Len(split(page_range_str, ",")) :
          LET pieces == split(split(page_range_str, ",")[k], "-")
          IN  Len(pieces) = 3 /\ \A n \in 1..3 : pieces[n] # <<>> /\ pieces[n] \in Seq(Digits)

\* C8: every failure (input file missing, unreadable PDF, malformed page
\* range, output not writable) ends the process with a non-zero status, and
\* only a saved output ends it with zero.
C8_ExitStatus == (pc = "exit") => (status = 0 <=> Saved)

\* a token that is the decimal literal of an integer: digits, a '-' before
\* them if it is negative
IsLiteral(tok) ==
    LET digits == IF tok # <<>> /\ Head(tok) = "-" THEN Tail(tok) ELSE tok
    IN  digits # <<>> /\ \A k \in 1..Len(digits) : digits[k] \in Digits

LiteralValue(tok) ==
    IF Head(tok) = "-" THEN 0 - Grammar(Tail(tok)).toks[1].lo
    ELSE Grammar(tok).toks[1].lo

\* C9 as stated: a page number that is 0 or negative raises nothing, and
\* its index, page number minus one, is in the result.
C9_NonPositiveAccepted ==
    (ParseRan /\ IsLiteral(page_range_str) /\ LiteralValue(page_range_str) <= 0) =>
        /\ exc # "ValueError"
        /\ Contains(pages_to_delete, LiteralValue(page_range_str) - 1)

\* C9 amended: the page number 0, alone or as the start of a range, raises
\* nothing and puts the index -1 in the result; a negative page number
\* raises ValueError, its minus sign being read as the hyphen of a range.
C9_ZeroAcceptedNegativeRaises ==
    ParseRan =>
        /\ (Accepted /\ \E t \in Tokens : t.lo = 0) =>
              (exc # "ValueError" /\ Contains(pages_to_delete, 0 - 1))
        /\ (\E k \in 1..Len(split(page_range_str, ",")) :
               LET tok == split(page_range_str, ",")[k]
               IN  IsLiteral(tok) /\ Head(tok) = "-") =>
              (exc = "ValueError" /\ pages_to_delete = <<>>)

\* a range that starts at page 0 was parsed together with another token
C9_Witness ==
    /\ ParseRan /\ Accepted /\ pc = "read"
    /\ \E t \in Tokens : t.lo = 0 /\ t.range /\ t.hi > 0
    /\ \E t \in Tokens : t.lo > 0
    /\ Contains(pages_to_delete, 0 - 1)

\* the indices named by the tokens that are not inverted ranges
UprightIndices == UNION {{p - 1 : p \in t.lo..t.hi} : t \in {u \in Tokens : ~Inverted(u)}}

\* C10: a range start-end with start > end raises nothing and adds no
\* index: the result holds the indices of the other tokens only, and a saved
\* output keeps every page those other tokens do not name.
C10_InvertedRangeEmpty ==
    (ParseRan /\ Accepted /\ \E t \in Tokens : Inverted(t)) =>
        /\ exc # "ValueError"
        /\ Range(pages_to_delete) = UprightIndices
        /\ Saved =>
              \A k \in 1..Len(reader) :
                  (k - 1) \notin UprightIndices =>
                      \E j \in 1..Len(outfile) : outfile[j] = reader[k]

\* a run was saved whose argument is an inverted range over pages the
\* document has, and another token that names one of its pages
C10_Witness ==
    /\ Saved /\ pc = "exit" /\ Accepted
    /\ \E t \in Tokens :
          /\ Inverted(t) /\ 1 <= t.hi /\ t.lo <= Len(reader)
          /\ \E p \in t.hi..t.lo : (p - 1) \notin UprightIndices
    /\ \E x \in UprightIndices : InRange(x)

====
